---- MODULE Spec2Model ----
(***************************************************************************)
(* Model of src/src/main.rs: main() runs four demonstrations in sequence.  *)
(*   1. using_threads_to_run_code_simultaneously: two counting threads,    *)
(*      joined, then a thread that takes my_str by move, joined.           *)
(*   2. using_message_passing_to_transfer_data_between_threads: an mpsc    *)
(*      channel, two detached sender threads, a receive loop.              *)
(*   3. shared_state_concurrency: Mutex m, then Arc<Mutex<String>> shared  *)
(*      by worker threads that each push one character.                    *)
(*   4. extensibility_concurrency_with_the_sync_and_send_traits: no code.  *)
(* Every statement that another thread can observe is one step.            *)
(* println! panics when the write to stdout fails; the environment may     *)
(* close stdout at any time (CloseStdout), which is the one way a thread   *)
(* of this program comes to panic.  A panic of a spawned thread ends that  *)
(* thread only; a panic of the main thread ends the process (exit 101).    *)
(* Strings that the program builds (shared) are sequences of u8 codes.     *)
(***************************************************************************)
EXTENDS Integers, Sequences, FiniteSets, TLC

\* The number of worker threads of shared_state_concurrency (0u8..10u8 in the
\* source); the model runs the loop with this many workers.
NumWorkers == 3

\* for i in 0..10
Iterations == 10
\* Mutex::new(5)
MInitial == 5
\* 'a' as u8 and the code of the character of String::from("1")
CharA == 97
Char1 == 49
\* u8 arithmetic
U8Modulus == 256

CountingThreads == {"first", "second"}
Senders == {"tx", "tx1"}
NamedThreads == CountingThreads \cup {"mover"} \cup Senders
Workers == 0 .. (NumWorkers - 1)
Mutexes == {"m", "shared"}

\* let multiple = vec!["channels", "are", "fun"]
multiple == <<"channels", "are", "fun">>
hello == "hello"
my_str == "moved string"

\* The messages of the panics of this program.
PrintFailed == "failed printing to stdout"
JoinMessage ==
    [first |-> "First thread crashed", second |-> "Second thread crashed",
     mover |-> "move_handle crashed"]
WorkerJoinMessage == "Failed at threads"
SendMessage == [tx |-> "Failed to send", tx1 |-> "Failed to send on tx1"]
PoisonMessage == "called Result::unwrap() on an Err value: PoisonError"
NoPanic == "none"

VARIABLES
    pc,             \* the main thread's position
    process,        \* "running", "exit_0" or "exit_101"
    stdout,         \* "open" or "closed"
    tpc,            \* position of each named spawned thread
    wpc,            \* position of each worker thread
    i,              \* loop variable of each counting thread
    idx,            \* position of the tx1 sender in multiple
    panicmsg,       \* panic message of each thread ("none": has not panicked)
    wpanicmsg,      \* panic message of each worker
    acquired,       \* the workers in the order their lock() returned a guard
    queue,          \* the channel's buffer
    handles,        \* the transmit handles alive
    rx,             \* TRUE while the receiver is alive
    val,            \* the loop variable of `for val in rx`
    locked,         \* per mutex: TRUE while a guard exists
    poisoned,       \* per mutex: poison flag
    m,              \* the value inside Mutex m
    shared,         \* the String inside the shared mutex
    worker_i,       \* loop variable of the spawn loop
    threads,        \* vec of the workers' join handles
    printed_i,      \* per counting thread: the i of each line printed
    printed_my_str, \* the lines "my_str: ..." printed
    printed_val,    \* the lines "val: ..." printed
    printed_m,      \* the lines "m: ..." printed
    printed_final   \* the lines "final_state: ..." printed

mainVars == <<pc, process, stdout>>
threadVars == <<tpc, i, idx, panicmsg>>
workerVars == <<wpc, wpanicmsg, acquired, worker_i, threads>>
channelVars == <<queue, handles, rx, val>>
mutexVars == <<locked, poisoned, m, shared>>
printVars == <<printed_i, printed_my_str, printed_val, printed_m, printed_final>>
vars == <<mainVars, threadVars, workerVars, channelVars, mutexVars, printVars>>

Init ==
    /\ pc = "spawn_first"
    /\ process = "running"
    /\ stdout = "open"
    /\ tpc = [t \in NamedThreads |-> "unspawned"]
    /\ wpc = [w \in Workers |-> "unspawned"]
    /\ i = [t \in CountingThreads |-> 0]
    /\ idx = 1
    /\ panicmsg = [t \in NamedThreads \cup {"main"} |-> NoPanic]
    /\ wpanicmsg = [w \in Workers |-> NoPanic]
    /\ acquired = <<>>
    /\ queue = <<>>
    /\ handles = {}
    /\ rx = FALSE
    /\ val = "none"
    /\ locked = [mu \in Mutexes |-> FALSE]
    /\ poisoned = [mu \in Mutexes |-> FALSE]
    /\ m = 0
    /\ shared = <<>>
    /\ worker_i = 0
    /\ threads = <<>>
    /\ printed_i = [t \in CountingThreads |-> <<>>]
    /\ printed_my_str = <<>>
    /\ printed_val = <<>>
    /\ printed_m = <<>>
    /\ printed_final = <<>>

Running == process = "running"

----------------------------------------------------------------------------
(* Library behaviour the program relies on. *)

\* A join that does not wait for the thread.
JoinableAlways(st) == TRUE

\* JoinHandle::join returns once the thread has terminated, normally or not.
Joinable(st) == st \in {"finished", "panicked"}

\* A lock that is granted while a guard exists.
AcquireAlways(l, mu) == TRUE

\* Mutex::lock blocks until no guard exists.
CanAcquire(l, mu) == ~l[mu]

\* A guard that is forgotten instead of dropped: the mutex stays locked.
ReleaseLeak(l, mu) == l

\* Dropping a MutexGuard unlocks the mutex.
Release(l, mu) == [l EXCEPT ![mu] = FALSE]

\* A channel of capacity 1 (mpsc::sync_channel(1)): a send waits for room.
CanSendBounded(q) == Len(q) < 1

\* mpsc::channel() is unbounded: a send never waits for room.
CanSend(q) == TRUE

\* A receive loop that stops at the first empty buffer (try_recv).
DisconnectedWhenEmpty(q, hs) == q = <<>>

\* A receive loop that stops as soon as no handle is alive, whatever the
\* buffer still holds.
DisconnectedWhenHandlesGone(q, hs) == hs = {}

\* The iterator of rx ends when recv fails: buffer empty and no handle alive.
Disconnected(q, hs) == q = <<>> /\ hs = {}

\* An insert at the front (String::insert(0, c)) instead of a push.
PushFront(s, c) == <<c>> \o s

\* String::push
Push(s, c) == Append(s, c)

\* The character without the worker's offset.
WorkerCharNoOffset(w) == CharA

\* ('a' as u8 + i) as char
WorkerChar(w) == (CharA + w) % U8Modulus

\* Counting threads that take turns: the second prints line i only after the
\* first has.
CanPrintInTurn(t) ==
    /\ tpc[t] = "print"
    /\ t = "second" => i["first"] > i["second"]

\* The counting loops take no notice of one another.
CanPrint(t) == tpc[t] = "print"

\* The main thread panics with msg and starts to unwind.
MainPanics(msg) ==
    /\ pc' = "panicked"
    /\ panicmsg' = [panicmsg EXCEPT !["main"] = msg]

\* A named spawned thread panics with msg.
ThreadPanics(t, msg) ==
    /\ tpc' = [tpc EXCEPT ![t] = "panicked"]
    /\ panicmsg' = [panicmsg EXCEPT ![t] = msg]

\* A join whose result is ignored (let _ = handle.join()).
JoinIgnoringResult(here, t, msg, next) ==
    /\ Running /\ pc = here
    /\ Joinable(tpc[t])
    /\ pc' = next
    /\ UNCHANGED <<process, stdout, threadVars, workerVars, channelVars,
                   mutexVars, printVars>>

\* handle.join().expect(msg): blocks until thread t has terminated, panics with
\* msg when t panicked, goes on to `next` otherwise.
Join(here, t, msg, next) ==
    /\ Running /\ pc = here
    /\ Joinable(tpc[t])
    /\ IF tpc[t] = "panicked"
         THEN MainPanics(msg)
         ELSE pc' = next /\ UNCHANGED panicmsg
    /\ UNCHANGED <<process, stdout, tpc, i, idx, workerVars, channelVars,
                   mutexVars, printVars>>

\* thread::spawn: thread t starts at position `at`.
Spawn(here, t, at, next) ==
    /\ Running /\ pc = here
    /\ tpc' = [tpc EXCEPT ![t] = at]
    /\ pc' = next
    /\ UNCHANGED <<process, stdout, i, idx, panicmsg, workerVars, channelVars,
                   mutexVars, printVars>>

----------------------------------------------------------------------------
(* The environment: the reader of stdout goes away. *)
CloseStdout ==
    /\ Running /\ stdout = "open"
    /\ stdout' = "closed"
    /\ UNCHANGED <<pc, process, threadVars, workerVars, channelVars, mutexVars,
                   printVars>>

----------------------------------------------------------------------------
(* using_threads_to_run_code_simultaneously *)

SpawnFirst == Spawn("spawn_first", "first", "print", "spawn_second")

SpawnSecond == Spawn("spawn_second", "second", "print", "join_first")

\* println!("First thread i: {i}") / println!("Second thread i: {i}")
CountPrint(t) ==
    /\ Running /\ CanPrint(t)
    /\ IF stdout = "open"
         THEN /\ printed_i' = [printed_i EXCEPT ![t] = Append(@, i[t])]
              /\ tpc' = [tpc EXCEPT ![t] = "sleep"]
              /\ UNCHANGED panicmsg
         ELSE /\ ThreadPanics(t, PrintFailed)
              /\ UNCHANGED printed_i
    /\ UNCHANGED <<mainVars, i, idx, workerVars, channelVars, mutexVars,
                   printed_my_str, printed_val, printed_m, printed_final>>

\* A counting loop that steps by two (for i in (0..10).step_by(2)).
CountSleepSkip(t) ==
    /\ Running /\ tpc[t] = "sleep"
    /\ i' = [i EXCEPT ![t] = @ + 2]
    /\ tpc' = [tpc EXCEPT ![t] = IF i[t] + 2 < Iterations THEN "print" ELSE "finished"]
    /\ UNCHANGED <<mainVars, idx, panicmsg, workerVars, channelVars, mutexVars,
                   printVars>>

\* thread::sleep(10 ms), then the next turn of `for i in 0..10`, or the end of
\* the closure and of the thread.
CountSleep(t) ==
    /\ Running /\ tpc[t] = "sleep"
    /\ i' = [i EXCEPT ![t] = @ + 1]
    /\ tpc' = [tpc EXCEPT ![t] = IF i[t] + 1 < Iterations THEN "print" ELSE "finished"]
    /\ UNCHANGED <<mainVars, idx, panicmsg, workerVars, channelVars, mutexVars,
                   printVars>>

JoinFirst == Join("join_first", "first", JoinMessage["first"], "join_second")

JoinSecond == Join("join_second", "second", JoinMessage["second"], "spawn_move")

SpawnMove == Spawn("spawn_move", "mover", "print", "join_move")

\* println!("my_str: {my_str}"), the whole closure of the move thread
MovePrint ==
    /\ Running /\ tpc["mover"] = "print"
    /\ IF stdout = "open"
         THEN /\ printed_my_str' = Append(printed_my_str, my_str)
              /\ tpc' = [tpc EXCEPT !["mover"] = "finished"]
              /\ UNCHANGED panicmsg
         ELSE /\ ThreadPanics("mover", PrintFailed)
              /\ UNCHANGED printed_my_str
    /\ UNCHANGED <<mainVars, i, idx, workerVars, channelVars, mutexVars,
                   printed_i, printed_val, printed_m, printed_final>>

JoinMove == Join("join_move", "mover", JoinMessage["mover"], "channel")

----------------------------------------------------------------------------
(* using_message_passing_to_transfer_data_between_threads *)

\* let (tx, rx) = mpsc::channel(); let tx1 = tx.clone();
CreateChannel ==
    /\ Running /\ pc = "channel"
    /\ queue' = <<>>
    /\ handles' = {"tx", "tx1"}
    /\ rx' = TRUE
    /\ pc' = "spawn_tx"
    /\ UNCHANGED <<process, stdout, threadVars, workerVars, val, mutexVars,
                   printVars>>

\* The two spawns drop the JoinHandle: the sender threads are detached.
SpawnTx == Spawn("spawn_tx", "tx", "send", "spawn_tx1")

SpawnTx1 == Spawn("spawn_tx1", "tx1", "send", "recv")

\* What sender s sends next, and where it goes after a send that succeeded.
NextMessage(s) == IF s = "tx" THEN hello ELSE multiple[idx]
AfterSend(s) == IF s = "tx" THEN "drop" ELSE "sleep"

\* tx.send(hello).expect("Failed to send") /
\* tx1.send(val).expect("Failed to send on tx1"):
\* the message is queued while the receiver is alive; otherwise send returns
\* Err, expect panics, and the unwinding closure drops its handle.
Send(s) ==
    /\ Running /\ tpc[s] = "send"
    /\ CanSend(queue)
    /\ IF rx
         THEN /\ queue' = Append(queue, NextMessage(s))
              /\ tpc' = [tpc EXCEPT ![s] = AfterSend(s)]
              /\ UNCHANGED <<handles, panicmsg>>
         ELSE /\ ThreadPanics(s, SendMessage[s])
              /\ handles' = handles \ {s}
              /\ UNCHANGED queue
    /\ UNCHANGED <<mainVars, i, idx, workerVars, rx, val, mutexVars, printVars>>

\* thread::sleep(300 ms), then the next element of multiple, or the end of
\* the loop.
Tx1Sleep ==
    /\ Running /\ tpc["tx1"] = "sleep"
    /\ idx' = idx + 1
    /\ tpc' = [tpc EXCEPT !["tx1"] = IF idx + 1 <= Len(multiple) THEN "send" ELSE "drop"]
    /\ UNCHANGED <<mainVars, i, panicmsg, workerVars, channelVars, mutexVars,
                   printVars>>

\* The end of a sender's closure: the handle it captured is dropped.
SenderDrop(s) ==
    /\ Running /\ tpc[s] = "drop"
    /\ handles' = handles \ {s}
    /\ tpc' = [tpc EXCEPT ![s] = "exiting"]
    /\ UNCHANGED <<mainVars, i, idx, panicmsg, workerVars, queue, rx, val,
                   mutexVars, printVars>>

\* The sender thread terminates; nothing waits for it.
SenderExit(s) ==
    /\ Running /\ tpc[s] = "exiting"
    /\ tpc' = [tpc EXCEPT ![s] = "finished"]
    /\ UNCHANGED <<mainVars, i, idx, panicmsg, workerVars, channelVars,
                   mutexVars, printVars>>

\* A receive that takes the newest message instead of the oldest.
RecvNewest ==
    /\ Running /\ pc = "recv"
    /\ queue # <<>>
    /\ val' = queue[Len(queue)]
    /\ queue' = SubSeq(queue, 1, Len(queue) - 1)
    /\ pc' = "print_val"
    /\ UNCHANGED <<process, stdout, threadVars, workerVars, handles, rx,
                   mutexVars, printVars>>

\* `for val in rx`: the next message, when the buffer holds one.
Recv ==
    /\ Running /\ pc = "recv"
    /\ queue # <<>>
    /\ val' = Head(queue)
    /\ queue' = Tail(queue)
    /\ pc' = "print_val"
    /\ UNCHANGED <<process, stdout, threadVars, workerVars, handles, rx,
                   mutexVars, printVars>>

\* `for val in rx` ends: recv failed; rx is dropped and the function returns.
RecvEnd ==
    /\ Running /\ pc = "recv"
    /\ Disconnected(queue, handles)
    /\ rx' = FALSE
    /\ pc' = "m_new"
    /\ UNCHANGED <<process, stdout, threadVars, workerVars, queue, handles, val,
                   mutexVars, printVars>>

\* println!("val: {val}"); a panic here unwinds the loop and drops rx.
PrintVal ==
    /\ Running /\ pc = "print_val"
    /\ IF stdout = "open"
         THEN /\ printed_val' = Append(printed_val, val)
              /\ pc' = "recv"
              /\ UNCHANGED <<panicmsg, rx>>
         ELSE /\ MainPanics(PrintFailed)
              /\ rx' = FALSE
              /\ UNCHANGED printed_val
    /\ UNCHANGED <<process, stdout, tpc, i, idx, workerVars, queue, handles, val,
                   mutexVars, printed_i, printed_my_str, printed_m, printed_final>>

----------------------------------------------------------------------------
(* shared_state_concurrency *)

\* let m = Mutex::new(5);
MNew ==
    /\ Running /\ pc = "m_new"
    /\ m' = MInitial
    /\ pc' = "m_lock"
    /\ UNCHANGED <<process, stdout, threadVars, workerVars, channelVars, locked,
                   poisoned, shared, printVars>>

\* mutex.lock().unwrap() by the main thread: blocks while a guard exists;
\* on a poisoned mutex lock returns Err and unwrap panics, dropping the guard.
MainLock(here, mu, next) ==
    /\ Running /\ pc = here
    /\ CanAcquire(locked, mu)
    /\ IF poisoned[mu]
         THEN MainPanics(PoisonMessage) /\ UNCHANGED locked
         ELSE /\ locked' = [locked EXCEPT ![mu] = TRUE]
              /\ pc' = next
              /\ UNCHANGED panicmsg
    /\ UNCHANGED <<process, stdout, tpc, i, idx, workerVars, channelVars,
                   poisoned, m, shared, printVars>>

\* let mut value = m.lock().unwrap();
MLock == MainLock("m_lock", "m", "m_incr")

\* *value += 1;
MIncr ==
    /\ Running /\ pc = "m_incr"
    /\ m' = m + 1
    /\ pc' = "m_unlock"
    /\ UNCHANGED <<process, stdout, threadVars, workerVars, channelVars, locked,
                   poisoned, shared, printVars>>

\* The end of the inner block: value, the guard, goes out of scope.
MUnlock ==
    /\ Running /\ pc = "m_unlock"
    /\ locked' = Release(locked, "m")
    /\ pc' = "m_print"
    /\ UNCHANGED <<process, stdout, threadVars, workerVars, channelVars,
                   poisoned, m, shared, printVars>>

\* What {:?} shows of a Mutex: its data when try_lock succeeds, <locked>
\* (no data) when a guard exists.
DebugMutex(mu, data) ==
    IF locked[mu] THEN [is_locked |-> TRUE, data |-> 0, poisoned |-> poisoned[mu]]
                  ELSE [is_locked |-> FALSE, data |-> data, poisoned |-> poisoned[mu]]

\* println!("m: {:?}", m);
MPrint ==
    /\ Running /\ pc = "m_print"
    /\ IF stdout = "open"
         THEN /\ printed_m' = Append(printed_m, DebugMutex("m", m))
              /\ pc' = "shared_new"
              /\ UNCHANGED panicmsg
         ELSE /\ MainPanics(PrintFailed)
              /\ UNCHANGED printed_m
    /\ UNCHANGED <<process, stdout, tpc, i, idx, workerVars, channelVars,
                   mutexVars, printed_i, printed_my_str, printed_val, printed_final>>

\* let shared = Arc::new(Mutex::new(String::from("1"))); let mut threads = vec![];
SharedNew ==
    /\ Running /\ pc = "shared_new"
    /\ shared' = <<Char1>>
    /\ threads' = <<>>
    /\ worker_i' = 0
    /\ pc' = "spawn_worker"
    /\ UNCHANGED <<process, stdout, threadVars, wpc, wpanicmsg, acquired, channelVars,
                   locked, poisoned, m, printVars>>

\* One turn of `for i in 0u8..10u8`: clone the Arc, spawn the worker, push its
\* handle on threads.
SpawnWorker ==
    /\ Running /\ pc = "spawn_worker"
    /\ worker_i < NumWorkers
    /\ wpc' = [wpc EXCEPT ![worker_i] = "lock"]
    /\ threads' = Append(threads, worker_i)
    /\ worker_i' = worker_i + 1
    /\ pc' = IF worker_i + 1 < NumWorkers THEN "spawn_worker" ELSE "join_worker"
    /\ UNCHANGED <<process, stdout, threadVars, wpanicmsg, acquired, channelVars,
                   mutexVars, printVars>>

\* let mut string = next_mutex.lock().unwrap();
WorkerLock(w) ==
    /\ Running /\ wpc[w] = "lock"
    /\ CanAcquire(locked, "shared")
    /\ IF poisoned["shared"]
         THEN /\ wpc' = [wpc EXCEPT ![w] = "panicked"]
              /\ wpanicmsg' = [wpanicmsg EXCEPT ![w] = PoisonMessage]
              /\ UNCHANGED <<locked, acquired>>
         ELSE /\ locked' = [locked EXCEPT !["shared"] = TRUE]
              /\ wpc' = [wpc EXCEPT ![w] = "push"]
              /\ acquired' = Append(acquired, w)
              /\ UNCHANGED wpanicmsg
    /\ UNCHANGED <<mainVars, threadVars, worker_i, threads, channelVars,
                   poisoned, m, shared, printVars>>

\* string.push(('a' as u8 + i) as char);
WorkerPush(w) ==
    /\ Running /\ wpc[w] = "push"
    /\ shared' = Push(shared, WorkerChar(w))
    /\ wpc' = [wpc EXCEPT ![w] = "drop"]
    /\ UNCHANGED <<mainVars, threadVars, wpanicmsg, acquired, worker_i, threads,
                   channelVars, locked, poisoned, m, printVars>>

\* The end of the worker's closure: string, the guard, goes out of scope.
WorkerDrop(w) ==
    /\ Running /\ wpc[w] = "drop"
    /\ locked' = Release(locked, "shared")
    /\ wpc' = [wpc EXCEPT ![w] = "exiting"]
    /\ UNCHANGED <<mainVars, threadVars, wpanicmsg, acquired, worker_i, threads,
                   channelVars, poisoned, m, shared, printVars>>

\* The worker thread terminates.
WorkerExit(w) ==
    /\ Running /\ wpc[w] = "exiting"
    /\ wpc' = [wpc EXCEPT ![w] = "finished"]
    /\ UNCHANGED <<mainVars, threadVars, wpanicmsg, acquired, worker_i, threads,
                   channelVars, mutexVars, printVars>>

\* One turn of `for thread in threads`: thread.join().expect("Failed at threads")
JoinWorker ==
    /\ Running /\ pc = "join_worker"
    /\ threads # <<>>
    /\ Joinable(wpc[Head(threads)])
    /\ IF wpc[Head(threads)] = "panicked"
         THEN MainPanics(WorkerJoinMessage) /\ UNCHANGED threads
         ELSE /\ threads' = Tail(threads)
              /\ pc' = IF Tail(threads) # <<>> THEN "join_worker" ELSE "final_lock"
              /\ UNCHANGED panicmsg
    /\ UNCHANGED <<process, stdout, tpc, i, idx, wpc, wpanicmsg, acquired, worker_i,
                   channelVars, mutexVars, printVars>>

\* let final_state = shared.lock().unwrap();
FinalLock == MainLock("final_lock", "shared", "final_print")

\* println!("final_state: {}", *final_state); a panic here drops the guard
\* while panicking, which poisons the mutex.
FinalPrint ==
    /\ Running /\ pc = "final_print"
    /\ IF stdout = "open"
         THEN /\ printed_final' = Append(printed_final, shared)
              /\ pc' = "final_drop"
              /\ UNCHANGED <<panicmsg, locked, poisoned>>
         ELSE /\ MainPanics(PrintFailed)
              /\ locked' = Release(locked, "shared")
              /\ poisoned' = [poisoned EXCEPT !["shared"] = TRUE]
              /\ UNCHANGED printed_final
    /\ UNCHANGED <<process, stdout, tpc, i, idx, workerVars, channelVars, m,
                   shared, printed_i, printed_my_str, printed_val, printed_m>>

\* The end of shared_state_concurrency: final_state, the guard, is dropped.
FinalDrop ==
    /\ Running /\ pc = "final_drop"
    /\ locked' = Release(locked, "shared")
    /\ pc' = "extensibility"
    /\ UNCHANGED <<process, stdout, threadVars, workerVars, channelVars,
                   poisoned, m, shared, printVars>>

----------------------------------------------------------------------------
(* extensibility_concurrency_with_the_sync_and_send_traits, and the end *)

\* The fourth demonstration holds comments only; main returns after it.
Extensibility ==
    /\ Running /\ pc = "extensibility"
    /\ pc' = "returned"
    /\ UNCHANGED <<process, stdout, threadVars, workerVars, channelVars,
                   mutexVars, printVars>>

\* The main thread has returned or has unwound: the process exits, with
\* every thread that is still running.
ProcessExit ==
    /\ Running /\ pc \in {"returned", "panicked"}
    /\ process' = IF pc = "returned" THEN "exit_0" ELSE "exit_101"
    /\ UNCHANGED <<pc, stdout, threadVars, workerVars, channelVars, mutexVars,
                   printVars>>

----------------------------------------------------------------------------
\* A step of the program: of the main thread or of a thread it spawned.
ProgramStep ==
    \/ SpawnFirst \/ SpawnSecond
    \/ \E t \in CountingThreads : CountPrint(t) \/ CountSleep(t)
    \/ JoinFirst \/ JoinSecond
    \/ SpawnMove \/ MovePrint \/ JoinMove
    \/ CreateChannel \/ SpawnTx \/ SpawnTx1
    \/ \E s \in Senders : Send(s) \/ SenderDrop(s) \/ SenderExit(s)
    \/ Tx1Sleep
    \/ Recv \/ RecvEnd \/ PrintVal
    \/ MNew \/ MLock \/ MIncr \/ MUnlock \/ MPrint
    \/ SharedNew \/ SpawnWorker
    \/ \E w \in Workers : WorkerLock(w) \/ WorkerPush(w) \/ WorkerDrop(w) \/ WorkerExit(w)
    \/ JoinWorker
    \/ FinalLock \/ FinalPrint \/ FinalDrop
    \/ Extensibility
    \/ ProcessExit

Next == CloseStdout \/ ProgramStep

Spec == Init /\ [][Next]_vars

\* The scheduler: while some thread of the process can take a step, a step
\* is eventually taken.  (The closing of stdout is the environment's and is
\* under no obligation.)
FairSpec == Spec /\ WF_vars(ProgramStep)

\* The executions in which stdout stays open, under the same scheduler.
StdoutOpenSpec == Init /\ [][ProgramStep]_vars /\ WF_vars(ProgramStep)

----------------------------------------------------------------------------
(* Positions of the main thread, in program order. *)

MainOrder ==
    <<"spawn_first", "spawn_second", "join_first", "join_second", "spawn_move",
      "join_move",
      "channel", "spawn_tx", "spawn_tx1", "recv", "print_val",
      "m_new", "m_lock", "m_incr", "m_unlock", "m_print", "shared_new",
      "spawn_worker", "join_worker", "final_lock", "final_print", "final_drop",
      "extensibility", "returned">>

\* The place of position p in program order; 0 for "panicked".
Pos(p) ==
    IF \E k \in 1..Len(MainOrder) : MainOrder[k] = p
      THEN CHOOSE k \in 1..Len(MainOrder) : MainOrder[k] = p
      ELSE 0

\* The demonstration (1..4) position p lies in; 5 once main has returned,
\* 0 for "panicked".
Demo(p) ==
    IF Pos(p) = 0 THEN 0
    ELSE IF Pos(p) < Pos("channel") THEN 1
    ELSE IF Pos(p) < Pos("m_new") THEN 2
    ELSE IF Pos(p) < Pos("extensibility") THEN 3
    ELSE IF p = "extensibility" THEN 4
    ELSE 5

\* The guards on the shared string that exist: a worker between its lock and
\* the end of its closure, the main thread between final_state's lock and the
\* end of the function.
WorkersHolding == {w \in Workers : wpc[w] \in {"push", "drop"}}
MainHolding == pc \in {"final_print", "final_drop"}
HolderCount == Cardinality(WorkersHolding) + (IF MainHolding THEN 1 ELSE 0)

\* How often character c occurs in string s.
Occurrences(s, c) == Cardinality({k \in 1..Len(s) : s[k] = c})

----------------------------------------------------------------------------
(* Claims *)

\* C1: every line printed as final_state starts with "1", has one character
\* more than there are workers, and holds the character 'a'+w of every worker
\* w exactly once, whatever the interleaving of the workers.
C1_FinalStateComplete ==
    \A k \in 1..Len(printed_final) :
        LET s == printed_final[k] IN
        /\ Len(s) = NumWorkers + 1
        /\ s[1] = Char1
        /\ \A w \in Workers : Occurrences(s, CharA + w) = 1

\* final_state has been printed, and the workers did not push in spawn order.
C1_Witness ==
    /\ Len(printed_final) = 1
    /\ printed_final[1][2] # CharA

\* C2: at most one guard on the shared string exists at a time, among the
\* workers and the main thread; the string changes only in a step of the one
\* worker that holds the guard, and is printed only while the main thread
\* holds the one guard.
C2_MutualExclusion ==
    /\ [](HolderCount <= 1)
    /\ [][ /\ (shared' # shared /\ pc # "shared_new") =>
                 /\ locked["shared"]
                 /\ \E w \in Workers :
                       /\ WorkersHolding = {w} /\ ~MainHolding
                       /\ wpc[w] = "push" /\ wpc'[w] = "drop"
           /\ (printed_final' # printed_final) =>
                 /\ locked["shared"]
                 /\ MainHolding /\ WorkersHolding = {} ]_vars

\* One worker holds the guard while another waits for the lock.
C2_Witness ==
    \E w1, w2 \in Workers :
        /\ w1 # w2
        /\ wpc[w1] = "push" /\ wpc[w2] = "lock"
        /\ locked["shared"]

\* C3: the main thread is past `for val in rx` only when no transmit handle
\* is alive, both sender closures have ended, and the buffer is empty.
C3_LoopEndsOnlyWhenDisconnected ==
    Demo(pc) >= 3 =>
        /\ handles = {}
        /\ queue = <<>>
        /\ \A s \in Senders : tpc[s] \in {"exiting", "finished"}

\* The loop has just ended.
C3_Witness == pc = "m_new" /\ ~rx /\ Len(printed_val) = 1 + Len(multiple)

\* The threads the main thread joins, and the position of each join.
JoinedThreads == {"first", "second", "mover"}
JoinPosition == [first |-> "join_first", second |-> "join_second", mover |-> "join_move"]

\* The messages of the expect calls on the joins.
JoinDiagnostics == {JoinMessage[t] : t \in JoinedThreads} \cup {WorkerJoinMessage}

\* What a panic of a spawned thread means for the main thread: it is not past
\* the join of that thread, it can end only by a panic whose message is one
\* of the join diagnostics, and the process does not exit normally.
ParentAborts(joinpos) ==
    /\ Pos(pc) <= Pos(joinpos)
    /\ pc = "panicked" => panicmsg["main"] \in JoinDiagnostics
    /\ process # "exit_0"

C6_JoinBlocks ==
    /\ (tpc["mover"] # "unspawned" \/ Pos(pc) > Pos("join_second")) =>
          \A t \in CountingThreads :
              /\ tpc[t] = "finished"
              /\ i[t] = Iterations
              /\ Len(printed_i[t]) = Iterations
    /\ Pos(pc) > Pos("join_first") => tpc["first"] = "finished"
    /\ (Pos(pc) >= Pos("final_lock") \/ MainHolding) =>
          \A w \in Workers : wpc[w] = "finished"

\* The main thread holds the lock for final_state (and the move thread was
\* spawned and joined before).
C6_Witness ==
    /\ pc = "final_print" /\ locked["shared"]
    /\ tpc["mover"] = "finished"

\* C7: once the main thread is in a later demonstration, no thread of an
\* earlier one can print, send or touch a lock: the counting threads and the
\* move thread have terminated before the second demonstration starts, the
\* sender threads (never joined) have dropped their handles before the third
\* starts, and the workers have terminated before the fourth starts; no
\* thread of a demonstration is spawned before that demonstration starts.
C7_DemonstrationsDoNotOverlap ==
    /\ Demo(pc) >= 2 =>
          /\ \A t \in CountingThreads :
                tpc[t] = "finished" /\ ~ENABLED CountPrint(t)
          /\ tpc["mover"] = "finished" /\ ~ENABLED MovePrint
    /\ Demo(pc) >= 3 =>
          \A s \in Senders :
              /\ tpc[s] \in {"exiting", "finished"}
              /\ ~ENABLED Send(s)
    /\ Demo(pc) >= 4 =>
          /\ \A w \in Workers :
                /\ wpc[w] = "finished"
                /\ ~ENABLED (WorkerLock(w) \/ WorkerPush(w) \/ WorkerDrop(w))
          /\ ~locked["shared"] /\ ~locked["m"]
    /\ Demo(pc) = 1 => \A s \in Senders : tpc[s] = "unspawned"
    /\ Demo(pc) \in {1, 2} => \A w \in Workers : wpc[w] = "unspawned"

\* The third demonstration runs while a sender thread has not yet terminated.
C7_Witness ==
    /\ Demo(pc) = 3
    /\ tpc["tx1"] = "exiting"
    /\ \E w \in Workers : wpc[w] = "push"

C8_FirstBeforeSecond ==
    /\ printed_i["first"] = <<0>>
    /\ tpc["second"] = "print" /\ printed_i["second"] = <<>>
C8_FirstDoneBeforeSecondStarts ==
    /\ Len(printed_i["first"]) = Iterations
    /\ tpc["second"] = "print" /\ printed_i["second"] = <<>>
C8_SecondDoneBeforeFirstStarts ==
    /\ Len(printed_i["second"]) = Iterations
    /\ tpc["first"] = "print" /\ printed_i["first"] = <<>>
C8_HelloBeforeChannels == printed_val = <<hello, "channels", "are", "fun">>
C8_HelloAfterChannels == printed_val = <<"channels", hello, "are", "fun">>
C8_HelloLast == printed_val = <<"channels", "are", "fun", hello>>

\* C9: a sender at its send is never made to wait, however many messages
\* the buffer holds; the buffer holds up to all the messages of the program.
C9_NoBackpressure ==
    /\ \A s \in Senders :
          (Running /\ tpc[s] = "send") => ENABLED Send(s)
    /\ Len(queue) <= 1 + Len(multiple)

\* Both senders have sent everything and the receiver has received nothing.
C9_Witness ==
    /\ Len(queue) = 1 + Len(multiple)
    /\ pc = "recv" /\ printed_val = <<>>
    /\ tpc["tx"] = "finished" /\ tpc["tx1"] = "finished"

\* C10: a guard is released at the end of its scope.  m is unlocked and holds
\* 6 when it is printed, and the line shows it.  The shared mutex is locked
\* only while a guard's scope is open; a worker's scope holds exactly its one
\* push, and a worker past its scope holds no guard.
C10_GuardReleasedAtScopeEnd ==
    /\ pc = "m_print" => (~locked["m"] /\ m = MInitial + 1)
    /\ \A k \in 1..Len(printed_m) :
          printed_m[k] = [is_locked |-> FALSE, data |-> MInitial + 1, poisoned |-> FALSE]
    /\ locked["m"] <=> pc \in {"m_incr", "m_unlock"}
    /\ locked["shared"] <=> HolderCount = 1
    /\ \A w \in Workers :
          Occurrences(shared, CharA + w) =
              IF wpc[w] \in {"drop", "exiting", "finished"} THEN 1 ELSE 0

\* m has been printed, and a worker past its scope has left the lock free
\* while another worker has yet to take it.
C10_Witness ==
    /\ Len(printed_m) = 1
    /\ ~locked["shared"]
    /\ \E w1, w2 \in Workers : wpc[w1] = "exiting" /\ wpc[w2] = "lock"

C11_TerminatesEitherWay == <>(process # "running")

\* While the process runs, some thread can take a step: nothing deadlocks.
C11_NoDeadlock == Running => ENABLED ProgramStep

\* The elements of a sequence.
Range(q) == {q[k] : k \in 1..Len(q)}

\* The messages the program sends, and those sent so far.
AllMessages == {hello} \cup Range(multiple)
SentByTx == IF tpc["tx"] \in {"drop", "exiting", "finished"} THEN {hello} ELSE {}
SentByTx1 ==
    IF tpc["tx1"] \in {"unspawned", "panicked"} THEN {}
    ELSE {multiple[k] : k \in 1..(IF tpc["tx1"] = "send" THEN idx - 1
                                   ELSE IF tpc["tx1"] = "sleep" THEN idx
                                   ELSE Len(multiple))}
Sent == SentByTx \cup SentByTx1

\* The message the receive loop has taken and not yet printed.
InHand == IF pc = "print_val" THEN <<val>> ELSE <<>>

\* Every message sent is in exactly one place: printed, in the loop's hand,
\* or in the buffer.
Conservation ==
    /\ Range(printed_val) \cup Range(InHand) \cup Range(queue) = Sent
    /\ Len(printed_val) + Len(InHand) + Len(queue) = Cardinality(Sent)

RECURSIVE Restrict(_, _)
Restrict(q, S) ==
    IF q = <<>> THEN <<>>
    ELSE IF Head(q) \in S THEN <<Head(q)>> \o Restrict(Tail(q), S)
    ELSE Restrict(Tail(q), S)

\* Whether p is a prefix of q.
IsPrefix(p, q) == Len(p) <= Len(q) /\ SubSeq(q, 1, Len(p)) = p

\* C14: the messages of tx1 are received in the order they were sent: in
\* every state the values printed, with "hello" left out, are the first
\* messages of multiple, so "channels" comes before "are" and "are" before
\* "fun", wherever "hello" falls; all three once the loop has ended.  While
\* the main thread has not panicked the same holds of the values printed,
\* the value in the loop's hand and the buffer, taken in that order.
C14_PerSenderFifo ==
    /\ pc # "panicked" =>
          IsPrefix(Restrict(printed_val \o InHand \o queue, Range(multiple)), multiple)
    /\ IsPrefix(Restrict(printed_val, Range(multiple)), multiple)
    /\ Demo(pc) >= 3 => Restrict(printed_val, Range(multiple)) = multiple

\* "hello" was received between "channels" and "are", and the loop has ended.
C14_Witness ==
    /\ printed_val = <<"channels", hello, "are", "fun">>
    /\ Demo(pc) = 3

\* "are" and "fun" were in the buffer together, behind "hello".
C14_TwoOfTx1Queued == queue = <<hello, "are", "fun">>

\* The workers whose push is done, in the order they acquired the lock: all
\* that acquired it, but for the one that holds it and has yet to push.
Pushed ==
    IF acquired # <<>> /\ wpc[acquired[Len(acquired)]] = "push"
      THEN SubSeq(acquired, 1, Len(acquired) - 1)
      ELSE acquired

\* C15: in every state from its construction on, the shared string is "1"
\* followed by the characters 'a'+w of the workers whose push is done, each
\* once, in the order in which those workers acquired the lock; whenever the
\* lock is free or held by the main thread these are exactly the workers past
\* their critical section.  A step never changes what the string already
\* holds.  Any worker waiting for the free lock may be the next to get it, and
\* the spawn loop waits for no worker, so every order of the workers is a
\* reachable suffix.
C15_SharedStringInvariant ==
    /\ [](Pos(pc) > Pos("shared_new") \/ shared # <<>> =>
            /\ shared = <<Char1>> \o [k \in 1..Len(Pushed) |-> CharA + Pushed[k]]
            /\ \A j, k \in 1..Len(acquired) : j # k => acquired[j] # acquired[k]
            /\ WorkersHolding = {} =>
                  Range(acquired) = {w \in Workers : wpc[w] \in {"exiting", "finished"}})
    /\ [](\A w \in Workers :
            (Running /\ wpc[w] = "lock" /\ ~locked["shared"]) => ENABLED WorkerLock(w))
    /\ []((Running /\ pc = "spawn_worker") => ENABLED SpawnWorker)
    /\ [][pc # "shared_new" => IsPrefix(shared, shared')]_vars

\* final_state was printed with the workers' characters in the reverse of
\* the order the workers were spawned in.
C15_Witness ==
    /\ Len(printed_final) = 1
    /\ printed_final[1] =
          <<Char1>> \o [k \in 1..NumWorkers |-> CharA + (NumWorkers - k)]

\* Every worker is spawned and waits for the lock, none has had it: from
\* here the lock can go to the workers in any order.
C15_AllWaiting ==
    /\ \A w \in Workers : wpc[w] = "lock"
    /\ shared = <<Char1>> /\ ~locked["shared"]

\* The lines 0, 1, ..., n-1.
Counted(n) == [k \in 1..n |-> k - 1]

C16_InOrderEvenWhenStdoutFails ==
    \A t \in CountingThreads :
        /\ printed_i[t] = Counted(Len(printed_i[t]))
        /\ tpc[t] = "finished" => printed_i[t] = Counted(Iterations)

====
